---- MODULE Spec2Model ----
(***************************************************************************)
(* Training service of backend/api.py and backend/train.py: the process-   *)
(* wide run slot TRAINER, the /train, /status, /stop, /export and /predict *)
(* handlers, and the background thread that runs Trainer.train.            *)
(*                                                                         *)
(* Handlers declared with `def` run on the server's thread pool, so two    *)
(* /train requests interleave statement by statement; the training thread  *)
(* interleaves with every handler.  Each Trainer object is a run id.       *)
(*                                                                         *)
(* A handler's response is an operator of the state it reads (StartReply,  *)
(* StatusResult, StopResult, ExportResult, PredictResult); the actions     *)
(* carry the handlers' effects.                                            *)
(***************************************************************************)
EXTENDS Integers, Sequences, FiniteSets, TLC

\* ---- bounds of the model ----
MaxRuns == 2        \* Trainer objects constructed in one behaviour
MaxEpochs == 2      \* largest `epochs` form value
MaxBatches == 2     \* len(train_loader) of the largest dataset
MaxReq == 2         \* /train handlers in flight at once
MaxClock == 3       \* last tick of the wall clock
TicksPerSecond == 2 \* clock ticks in one second of time.time()
MaxImages == 2      \* image files in one class directory

\* Python's None in the run slot (api.py:34), and in the two loss fields
None == 0
Unset == <<>>

RunIds == 1..MaxRuns
EpochKeys == 1..MaxEpochs

\* ---- datasets a request can name ----
\* "full": both streams non-empty; "noval": a pre-split tree whose val/ holds
\* no image; "missing": a path that does not exist.  (A tree whose training
\* share is empty makes DataLoader(shuffle=True) raise inside Trainer(...):
\* that is the failing branch of StartConstruct.)
DataDirs == {"full", "noval"}
MissingDir == "missing"

\* len(train_loader) / len(val_loader) of the loaders prepare_loaders builds
TrainBatches(d) == IF d = "full" THEN MaxBatches ELSE 1
ValBatches(d) == IF d = "noval" THEN 0 ELSE 1

\* torch.cuda.is_available() is fixed for the life of the process
Device == "cpu"

\* loss.item() of mini-batch i of epoch e, and the validation average of epoch e
BatchLoss(e, i) == <<e, i>>
ValLoss(e) == <<e>>

VARIABLES
    TRAINER,    \* api.py:34  [instance, thread], run ids or None
    created,    \* number of Trainer objects constructed so far
    cfg,        \* per run: [epochs, data]  (Trainer.epochs, the loaders)
    state,      \* per run: Trainer.state
    stopFlag,   \* per run: Trainer._stop
    mode,       \* per run: the model's training flag, "train" or "eval"
    th,         \* per run: the background thread [pc, epoch, i]
    store,      \* CHECKPOINT_DIR: [pth, json], epoch key -> writing run or None
    log,        \* per run: [pth, json], the epoch keys it wrote, in order
    stopAt,     \* per run: the epoch in progress when stop() first reached it (history)
    checked,    \* /train handlers past api.py:80 that have not built their Trainer yet
    starter,    \* per run: where the /train handler that built it stands
    clock,      \* the wall clock, in ticks
    exports,    \* EXPORT_DIR: the artifact files, [path, mtime]
    tree,       \* the directory tree handed to prepare_loaders
    loaders     \* what prepare_loaders built from it

\* The artifact directory, the clock and the data loader are written by the
\* service and never read back by it: Spec follows the service without them,
\* SpecExport follows one run together with EXPORT_DIR and the clock, and
\* SpecLoaders follows prepare_loaders alone.
aux == <<clock, exports, tree, loaders>>

vars == <<TRAINER, created, cfg, state, stopFlag, mode, th, store, log, stopAt,
          checked, starter, clock, exports, tree, loaders>>

\* no tree handed over, nothing built
NoTree == [layout |-> "none"]
NotBuilt == [result |-> "none"]

\* threading.Thread.is_alive()
IsAlive(r) == th[r].pc \notin {"unstarted", "exited", "aborted"}

\* Trainer.__init__'s state dictionary (train.py:36-43)
InitState(d) ==
    [status |-> "initialized", epoch |-> 0, last_loss |-> Unset,
     last_val_loss |-> Unset, device |-> Device, classes |-> d]

Init ==
    /\ TRAINER = [instance |-> None, thread |-> None]
    /\ created = 0
    /\ cfg = [r \in RunIds |-> [epochs |-> 0, data |-> MissingDir]]
    /\ state = [r \in RunIds |-> InitState(MissingDir)]
    /\ stopFlag = [r \in RunIds |-> FALSE]
    /\ mode = [r \in RunIds |-> "train"]
    /\ th = [r \in RunIds |-> [pc |-> "unstarted", epoch |-> 0, i |-> 0]]
    /\ store = [pth |-> [k \in EpochKeys |-> None], json |-> [k \in EpochKeys |-> None]]
    /\ log = [r \in RunIds |-> [pth |-> <<>>, json |-> <<>>]]
    /\ stopAt = [r \in RunIds |-> None]
    /\ checked = 0
    /\ starter = [r \in RunIds |-> "none"]
    /\ clock = 0
    /\ exports = {}
    /\ tree = NoTree
    /\ loaders = NotBuilt

\* ------------------------------------------------------------------------
\* POST /train  (api.py:67-86)
\* ------------------------------------------------------------------------

\* /train handlers between their first and their last statement
InFlight == checked + Cardinality({r \in RunIds : starter[r] \in {"launch", "record"}})

\* the guard of api.py:76
ThreadBusy == TRAINER.thread # None /\ IsAlive(TRAINER.thread)

\* what api.py:76-80 decide for a request naming data_dir d
StartReply(d) ==
    IF ThreadBusy THEN "busy"
    ELSE IF d = MissingDir THEN "data_dir not found"
    ELSE "construct"

\* StartCheck with the slot's instance cleared before the liveness check
StartCheckClearsSlot(d) ==
    /\ InFlight < MaxReq
    /\ TRAINER' = [TRAINER EXCEPT !.instance = None]
    /\ IF StartReply(d) = "construct"
       THEN /\ created + checked < MaxRuns
            /\ checked' = checked + 1
       ELSE UNCHANGED checked
    /\ UNCHANGED <<created, cfg, state, stopFlag, mode, th, store, log, stopAt, starter>>

\* api.py:75-80: the liveness check and the data_dir check.  A request that
\* is answered busy or 400 ends here; one that passes goes on to api.py:82.
\* (At most MaxRuns requests are let past the check in one behaviour.)
StartCheck(d) ==
    /\ InFlight < MaxReq
    /\ IF StartReply(d) = "construct"
       THEN /\ created + checked < MaxRuns
            /\ checked' = checked + 1
       ELSE UNCHANGED checked
    /\ UNCHANGED <<TRAINER, created, cfg, state, stopFlag, mode, th, store, log, stopAt, starter>>

\* StartConstructFails with the slot emptied before Trainer(...) is called
StartConstructFailsClearsSlot ==
    /\ checked > 0
    /\ checked' = checked - 1
    /\ TRAINER' = [instance |-> None, thread |-> None]
    /\ UNCHANGED <<created, cfg, state, stopFlag, mode, th, store, log, stopAt, starter>>

\* api.py:82, Trainer(...) raises (prepare_loaders or TransferResNet fails):
\* the request ends before api.py:83
StartConstructFails ==
    /\ checked > 0
    /\ checked' = checked - 1
    /\ UNCHANGED <<TRAINER, created, cfg, state, stopFlag, mode, th, store, log, stopAt,
                   starter>>

\* api.py:82-83: Trainer(...) (train.py:21-44), then TRAINER['instance'] = t.
\* d and n are the request's data_dir and epochs.
StartConstruct(d, n) ==
    /\ checked > 0
    /\ created < MaxRuns
    /\ LET t == created + 1 IN
       /\ created' = t
       /\ cfg' = [cfg EXCEPT ![t] = [epochs |-> n, data |-> d]]
       /\ state' = [state EXCEPT ![t] = InitState(d)]
       /\ stopFlag' = [stopFlag EXCEPT ![t] = FALSE]
       /\ mode' = [mode EXCEPT ![t] = "train"]
       /\ TRAINER' = [TRAINER EXCEPT !.instance = t]
       /\ starter' = [starter EXCEPT ![t] = "launch"]
    /\ checked' = checked - 1
    /\ UNCHANGED <<th, store, log, stopAt>>

\* api.py:84: t.start_background() (train.py:99-102)
StartLaunch(t) ==
    /\ starter[t] = "launch"
    /\ th' = [th EXCEPT ![t].pc = "begin"]
    /\ starter' = [starter EXCEPT ![t] = "record"]
    /\ UNCHANGED <<TRAINER, created, cfg, state, stopFlag, mode, store, log, stopAt,
                   checked>>

\* api.py:85-86: TRAINER['thread'] = thread; return started
StartRecord(t) ==
    /\ starter[t] = "record"
    /\ TRAINER' = [TRAINER EXCEPT !.thread = t]
    /\ starter' = [starter EXCEPT ![t] = "started"]
    /\ UNCHANGED <<created, cfg, state, stopFlag, mode, th, store, log, stopAt,
                   checked>>

\* ------------------------------------------------------------------------
\* Trainer.train on the background thread  (train.py:46-86)
\* ------------------------------------------------------------------------

Abort(r) == th' = [th EXCEPT ![r].pc = "aborted"]

\* program points inside the body of one epoch (train.py:54-83)
BodyPcs == {"batch", "save_pth", "save_json"}

\* train.py:47
TrainBegin(r) ==
    /\ th[r].pc = "begin"
    /\ state' = [state EXCEPT ![r].status = "training"]
    /\ th' = [th EXCEPT ![r].pc = "head"]
    /\ UNCHANGED <<TRAINER, created, cfg, stopFlag, mode, store, log, stopAt, checked, starter>>

\* TrainHead with the loop written range(1, self.epochs)
TrainHeadShort(r) ==
    /\ th[r].pc = "head"
    /\ LET epoch == th[r].epoch + 1 IN
       IF epoch >= cfg[r].epochs
       THEN /\ th' = [th EXCEPT ![r].pc = "tail"]
            /\ UNCHANGED <<state, mode>>
       ELSE IF stopFlag[r]
       THEN /\ state' = [state EXCEPT ![r].status = "stopped"]
            /\ th' = [th EXCEPT ![r].pc = "tail", ![r].epoch = epoch]
            /\ UNCHANGED mode
       ELSE /\ state' = [state EXCEPT ![r].epoch = epoch]
            /\ mode' = [mode EXCEPT ![r] = "train"]
            /\ th' = [th EXCEPT ![r].pc = "batch", ![r].epoch = epoch, ![r].i = 0]
    /\ UNCHANGED <<TRAINER, created, cfg, stopFlag, store, log, stopAt, checked, starter>>

\* TrainHead with the epoch field left unwritten
TrainHeadKeepsEpoch(r) ==
    /\ th[r].pc = "head"
    /\ LET epoch == th[r].epoch + 1 IN
       IF epoch > cfg[r].epochs
       THEN /\ th' = [th EXCEPT ![r].pc = "tail"]
            /\ UNCHANGED <<state, mode>>
       ELSE IF stopFlag[r]
       THEN /\ state' = [state EXCEPT ![r].status = "stopped"]
            /\ th' = [th EXCEPT ![r].pc = "tail", ![r].epoch = epoch]
            /\ UNCHANGED mode
       ELSE /\ mode' = [mode EXCEPT ![r] = "train"]
            /\ th' = [th EXCEPT ![r].pc = "batch", ![r].epoch = epoch, ![r].i = 0]
            /\ UNCHANGED state
    /\ UNCHANGED <<TRAINER, created, cfg, stopFlag, store, log, stopAt, checked, starter>>

\* train.py:48-54: the loop head, the cancellation check, the epoch field,
\* model.train()
TrainHead(r) ==
    /\ th[r].pc = "head"
    /\ LET epoch == th[r].epoch + 1 IN
       IF epoch > cfg[r].epochs
       THEN /\ th' = [th EXCEPT ![r].pc = "tail"]
            /\ UNCHANGED <<state, mode>>
       ELSE IF stopFlag[r]
       THEN /\ state' = [state EXCEPT ![r].status = "stopped"]
            /\ th' = [th EXCEPT ![r].pc = "tail", ![r].epoch = epoch]
            /\ UNCHANGED mode
       ELSE /\ state' = [state EXCEPT ![r].epoch = epoch]
            /\ mode' = [mode EXCEPT ![r] = "train"]
            /\ th' = [th EXCEPT ![r].pc = "batch", ![r].epoch = epoch, ![r].i = 0]
    /\ UNCHANGED <<TRAINER, created, cfg, stopFlag, store, log, stopAt, checked, starter>>

\* TrainBatch with the cancellation flag checked per mini-batch
TrainBatchChecksStop(r) ==
    /\ th[r].pc = "batch"
    /\ th[r].i < TrainBatches(cfg[r].data)
    /\ IF stopFlag[r]
       THEN /\ state' = [state EXCEPT ![r].status = "stopped"]
            /\ th' = [th EXCEPT ![r].pc = "tail"]
       ELSE \/ /\ Abort(r)
               /\ UNCHANGED state
            \/ /\ th' = [th EXCEPT ![r].i = @ + 1]
               /\ state' = [state EXCEPT ![r].last_loss = BatchLoss(th[r].epoch, th[r].i + 1)]
    /\ UNCHANGED <<TRAINER, created, cfg, stopFlag, mode, store, log, stopAt, checked, starter>>

\* train.py:55-63: one mini-batch.  Fetching it decodes images
\* (dataset.py:37), which raises on a corrupt file.
TrainBatch(r) ==
    /\ th[r].pc = "batch"
    /\ th[r].i < TrainBatches(cfg[r].data)
    /\ \/ /\ Abort(r)
          /\ UNCHANGED state
       \/ /\ th' = [th EXCEPT ![r].i = @ + 1]
          /\ state' = [state EXCEPT ![r].last_loss = BatchLoss(th[r].epoch, th[r].i + 1)]
    /\ UNCHANGED <<TRAINER, created, cfg, stopFlag, mode, store, log, stopAt, checked, starter>>

\* TrainValidate with the last_val_loss field left unwritten
TrainValidateKeepsLoss(r) ==
    /\ th[r].pc = "batch"
    /\ th[r].i = TrainBatches(cfg[r].data)
    /\ mode' = [mode EXCEPT ![r] = "eval"]
    /\ \/ Abort(r)
       \/ /\ ValBatches(cfg[r].data) > 0
          /\ th' = [th EXCEPT ![r].pc = "save_pth"]
    /\ UNCHANGED <<TRAINER, created, cfg, state, stopFlag, store, log, stopAt, checked, starter>>

\* train.py:65-67 with _validate (train.py:88-97): model.eval(), the
\* validation pass, the division by len(val_loader), the last_val_loss field.
\* The pass raises on a corrupt file, the division on an empty stream.
TrainValidate(r) ==
    /\ th[r].pc = "batch"
    /\ th[r].i = TrainBatches(cfg[r].data)
    /\ mode' = [mode EXCEPT ![r] = "eval"]
    /\ \/ /\ Abort(r)
          /\ UNCHANGED state
       \/ /\ ValBatches(cfg[r].data) > 0
          /\ state' = [state EXCEPT ![r].last_val_loss = ValLoss(th[r].epoch)]
          /\ th' = [th EXCEPT ![r].pc = "save_pth"]
    /\ UNCHANGED <<TRAINER, created, cfg, stopFlag, store, log, stopAt, checked, starter>>

\* train.py:69-73: torch.save to ckpt_epoch_{epoch}.pth
TrainSavePth(r) ==
    /\ th[r].pc = "save_pth"
    /\ store' = [store EXCEPT !.pth[th[r].epoch] = r]
    /\ log' = [log EXCEPT ![r].pth = Append(@, th[r].epoch)]
    /\ th' = [th EXCEPT ![r].pc = "save_json"]
    /\ UNCHANGED <<TRAINER, created, cfg, state, stopFlag, mode, stopAt, checked, starter>>

\* train.py:75-83: the metadata record ckpt_epoch_{epoch}.json
TrainSaveJson(r) ==
    /\ th[r].pc = "save_json"
    /\ store' = [store EXCEPT !.json[th[r].epoch] = r]
    /\ log' = [log EXCEPT ![r].json = Append(@, th[r].epoch)]
    /\ th' = [th EXCEPT ![r].pc = "head"]
    /\ UNCHANGED <<TRAINER, created, cfg, state, stopFlag, mode, stopAt, checked, starter>>

\* TrainTail without the test of the cancellation flag
TrainTailAlwaysFinished(r) ==
    /\ th[r].pc = "tail"
    /\ state' = [state EXCEPT ![r].status = "finished"]
    /\ th' = [th EXCEPT ![r].pc = "exited"]
    /\ UNCHANGED <<TRAINER, created, cfg, stopFlag, mode, store, log, stopAt, checked, starter>>

\* train.py:85-86, then the thread's target returns
TrainTail(r) ==
    /\ th[r].pc = "tail"
    /\ state' = [state EXCEPT ![r].status = IF stopFlag[r] THEN @ ELSE "finished"]
    /\ th' = [th EXCEPT ![r].pc = "exited"]
    /\ UNCHANGED <<TRAINER, created, cfg, stopFlag, mode, store, log, stopAt, checked, starter>>

\* ------------------------------------------------------------------------
\* the other handlers
\* ------------------------------------------------------------------------

\* StatusResult answering idle when the slot's thread is not running
StatusResultLiveOnly ==
    IF TRAINER.instance = None \/ ~IsAlive(TRAINER.instance)
    THEN [status |-> "idle"] ELSE state[TRAINER.instance]

\* GET /status  (api.py:89-94): the response body
StatusResult ==
    IF TRAINER.instance = None THEN [status |-> "idle"] ELSE state[TRAINER.instance]

\* the handler returns t.state and writes nothing
Status == UNCHANGED vars

\* POST /stop  (api.py:130-137): the response
StopResult == IF TRAINER.instance = None THEN "no job" ELSE "stopping"

\* Stop with the handler writing the status field itself
StopWritesStatus ==
    /\ IF TRAINER.instance = None
       THEN UNCHANGED <<state, stopFlag, stopAt>>
       ELSE LET t == TRAINER.instance IN
            /\ stopFlag' = [stopFlag EXCEPT ![t] = TRUE]
            /\ state' = [state EXCEPT ![t].status = "stopped"]
            /\ stopAt' = [stopAt EXCEPT ![t] =
                            IF ~stopFlag[t] /\ th[t].pc \in BodyPcs THEN th[t].epoch ELSE @]
    /\ UNCHANGED <<TRAINER, created, cfg, mode, th, store, log, checked, starter>>

\* POST /stop with Trainer.stop (train.py:104-105)
Stop ==
    /\ IF TRAINER.instance = None
       THEN UNCHANGED <<stopFlag, stopAt>>
       ELSE LET t == TRAINER.instance IN
            /\ stopFlag' = [stopFlag EXCEPT ![t] = TRUE]
            /\ stopAt' = [stopAt EXCEPT ![t] =
                            IF ~stopFlag[t] /\ th[t].pc \in BodyPcs THEN th[t].epoch ELSE @]
    /\ UNCHANGED <<TRAINER, created, cfg, state, mode, th, store, log, checked, starter>>

\* POST /export  (api.py:97-109): the response
Formats == {"torchscript", "onnx", "bogus"}

\* export with every format but 'torchscript' taken for 'onnx'
ExportResultAnyFormat(format) ==
    IF TRAINER.instance = None THEN "no model" ELSE "path"

ExportResult(format) ==
    IF TRAINER.instance = None THEN "no model"
    ELSE IF format \in {"torchscript", "onnx"} THEN "path"
    ELSE "unknown format"

\* POST /export with Trainer.export_torchscript / export_onnx
\* (train.py:107-125), whose first statement is self.model.eval()
Export(format) ==
    /\ mode' = IF ExportResult(format) = "path"
               THEN [mode EXCEPT ![TRAINER.instance] = "eval"] ELSE mode
    /\ UNCHANGED <<TRAINER, created, cfg, state, stopFlag, th, store, log, stopAt,
                   checked, starter>>

\* int(time.time())
Seconds(t) == t \div TicksPerSecond

\* f'model_{int(time.time())}.pt' and f'model_{int(time.time())}.onnx' under
\* EXPORT_DIR  (train.py:109-110, 117-118)
OutPath(format) ==
    <<"model_", Seconds(clock), IF format = "torchscript" THEN ".pt" ELSE ".onnx">>

\* traced.save(out_path) / torch.onnx.export(..., str(out_path), ...): the file
\* at out_path is created, or replaced when it is there already; an export
\* that raises in api.py:100-108 gets to neither
WriteArtifact(format) ==
    exports' = IF ExportResult(format) = "path"
               THEN {e \in exports : e.path # OutPath(format)}
                       \cup {[path |-> OutPath(format), mtime |-> clock]}
               ELSE exports

\* POST /export with what it leaves in EXPORT_DIR
ExportArtifact(format) ==
    /\ Export(format)
    /\ WriteArtifact(format)
    /\ UNCHANGED <<clock, tree, loaders>>

\* time passes
Tick ==
    /\ clock < MaxClock
    /\ clock' = clock + 1
    /\ UNCHANGED <<TRAINER, created, cfg, state, stopFlag, mode, th, store, log,
                   stopAt, checked, starter, exports, tree, loaders>>

\* what the body of the try block of predict_image raises (api.py:144-199):
\* the image is decoded first (l.146-158), then a model is looked for
\* (l.161-172)
PredictRaised(decodes, ckpt) ==
    IF ~decodes THEN "decode error"
    ELSE IF ckpt \/ TRAINER.instance # None THEN "none"
    ELSE "HTTPException 400"

\* POST /predict  (api.py:140-202): which model answers.  decodes: the image
\* decodes; ckpt: model_path is given and names an existing, loadable
\* checkpoint.  Every exception, the 400 of api.py:172 included, leaves
\* through the handler of api.py:201-202.
PredictResult(decodes, ckpt) ==
    IF PredictRaised(decodes, ckpt) # "none" THEN "error 500"
    ELSE IF ckpt THEN "checkpoint"
    ELSE "live"

\* api.py:161-177: model.eval() and model.to(device) on the chosen model
Predict(decodes, ckpt) ==
    /\ mode' = IF PredictResult(decodes, ckpt) = "live"
               THEN [mode EXCEPT ![TRAINER.instance] = "eval"] ELSE mode
    /\ UNCHANGED <<TRAINER, created, cfg, state, stopFlag, th, store, log, stopAt,
                   checked, starter>>

\* ------------------------------------------------------------------------

Next ==
    \/ \E d \in DataDirs \cup {MissingDir} : StartCheck(d) /\ UNCHANGED aux
    \/ StartConstructFails /\ UNCHANGED aux
    \/ \E d \in DataDirs, n \in 0..MaxEpochs : StartConstruct(d, n) /\ UNCHANGED aux
    \/ \E t \in RunIds : StartLaunch(t) /\ UNCHANGED aux
    \/ \E t \in RunIds : StartRecord(t) /\ UNCHANGED aux
    \/ \E r \in RunIds : TrainBegin(r) /\ UNCHANGED aux
    \/ \E r \in RunIds : TrainHead(r) /\ UNCHANGED aux
    \/ \E r \in RunIds : TrainBatch(r) /\ UNCHANGED aux
    \/ \E r \in RunIds : TrainValidate(r) /\ UNCHANGED aux
    \/ \E r \in RunIds : TrainSavePth(r) /\ UNCHANGED aux
    \/ \E r \in RunIds : TrainSaveJson(r) /\ UNCHANGED aux
    \/ \E r \in RunIds : TrainTail(r) /\ UNCHANGED aux
    \/ Status /\ UNCHANGED aux
    \/ Stop /\ UNCHANGED aux
    \/ \E f \in Formats : Export(f) /\ UNCHANGED aux
    \/ \E d \in BOOLEAN, c \in BOOLEAN : Predict(d, c) /\ UNCHANGED aux

Spec == Init /\ [][Next]_vars

\* the clients that send one /train request at a time: a request is sent only
\* after the previous one was answered
NextSeq ==
    \/ \E d \in DataDirs \cup {MissingDir} : InFlight = 0 /\ StartCheck(d) /\ UNCHANGED aux
    \/ StartConstructFails /\ UNCHANGED aux
    \/ \E d \in DataDirs, n \in 0..MaxEpochs : StartConstruct(d, n) /\ UNCHANGED aux
    \/ \E t \in RunIds : StartLaunch(t) /\ UNCHANGED aux
    \/ \E t \in RunIds : StartRecord(t) /\ UNCHANGED aux
    \/ \E r \in RunIds : TrainBegin(r) /\ UNCHANGED aux
    \/ \E r \in RunIds : TrainHead(r) /\ UNCHANGED aux
    \/ \E r \in RunIds : TrainBatch(r) /\ UNCHANGED aux
    \/ \E r \in RunIds : TrainValidate(r) /\ UNCHANGED aux
    \/ \E r \in RunIds : TrainSavePth(r) /\ UNCHANGED aux
    \/ \E r \in RunIds : TrainSaveJson(r) /\ UNCHANGED aux
    \/ \E r \in RunIds : TrainTail(r) /\ UNCHANGED aux
    \/ Status /\ UNCHANGED aux
    \/ Stop /\ UNCHANGED aux
    \/ \E f \in Formats : Export(f) /\ UNCHANGED aux
    \/ \E d \in BOOLEAN, c \in BOOLEAN : Predict(d, c) /\ UNCHANGED aux

SpecSeq == Init /\ [][NextSeq]_vars

\* the service with EXPORT_DIR and the clock in view: clients that send one
\* /train request at a time and export while time passes
NextExport ==
    \/ \E d \in DataDirs \cup {MissingDir} :
          InFlight = 0 /\ StartCheck(d) /\ UNCHANGED aux
    \/ StartConstructFails /\ UNCHANGED aux
    \/ \E d \in DataDirs, n \in 0..MaxEpochs : StartConstruct(d, n) /\ UNCHANGED aux
    \/ \E t \in RunIds : StartLaunch(t) /\ UNCHANGED aux
    \/ \E t \in RunIds : StartRecord(t) /\ UNCHANGED aux
    \/ \E r \in RunIds : TrainBegin(r) /\ UNCHANGED aux
    \/ \E r \in RunIds : TrainHead(r) /\ UNCHANGED aux
    \/ \E r \in RunIds : TrainBatch(r) /\ UNCHANGED aux
    \/ \E r \in RunIds : TrainValidate(r) /\ UNCHANGED aux
    \/ \E r \in RunIds : TrainSavePth(r) /\ UNCHANGED aux
    \/ \E r \in RunIds : TrainSaveJson(r) /\ UNCHANGED aux
    \/ \E r \in RunIds : TrainTail(r) /\ UNCHANGED aux
    \/ \E f \in Formats : ExportArtifact(f)
    \/ Tick

SpecExport == Init /\ [][NextExport]_vars

\* ------------------------------------------------------------------------
\* prepare_loaders  (dataset.py:45-130)
\* ------------------------------------------------------------------------

\* the names a class directory can have, as sorted() orders them
ClassNames == <<"a", "b", "c">>

\* a directory of class directories: for each one that is there, the number
\* of image files in it
Dirs == UNION {[S -> 0..MaxImages] : S \in SUBSET {ClassNames[j] : j \in 1..Len(ClassNames)}}

\* data_dir: class directories directly under it, or train/ and val/
Trees ==
    {[layout |-> "flat", root |-> d] : d \in Dirs}
        \cup {[layout |-> "split", train |-> d, val |-> e] : d \in Dirs, e \in Dirs}

\* dataset.py:17-28 from the k-th class directory on: an entry of images and
\* labels per image file, the label being the directory's index in classes
RECURSIVE Scan(_, _, _)
Scan(dir, classes, k) ==
    IF k > Len(classes) THEN <<>>
    ELSE [j \in 1..dir[classes[k]] |->
             [class_dir |-> classes[k], img |-> j, label |-> k - 1]]
         \o Scan(dir, classes, k + 1)

\* ImageFolderDataset(root_dir, transform)  (dataset.py:9-28): every
\* directory under root_dir, in sorted order, is a class
ImageFolderDataset(dir, transform) ==
    LET IsDir(c) == c \in DOMAIN dir
        classes == SelectSeq(ClassNames, IsDir)
    IN  [classes |-> classes, samples |-> Scan(dir, classes, 1), transform |-> transform]

\* prepare_loaders raised
Raised == [result |-> "raised"]

\* DataLoader(train_dataset, shuffle=True, ...) of dataset.py:114-120 over no
\* example: RandomSampler refuses an empty data source in some versions of
\* torch and accepts it in others
WithLoaders(built) ==
    IF built.train.indices = {} THEN {built, Raised} ELSE {built}

\* prepare_loaders(data_dir)  (dataset.py:45-130): what it can return for
\* tree t.  datasets holds the ImageFolderDataset objects built; a stream
\* names the object it reads (ds) and the entries it reads of it (indices),
\* as a Subset of random_split does.
PrepareLoaders(t) ==
    IF t.layout = "split"
    THEN LET train_dataset == ImageFolderDataset(t.train, "train_transform")
             val_dataset == ImageFolderDataset(t.val, "val_transform")
         IN  WithLoaders(
                [result |-> "built",
                 classes |-> train_dataset.classes,
                 datasets |-> <<train_dataset, val_dataset>>,
                 train |-> [ds |-> 1, indices |-> 1..Len(train_dataset.samples)],
                 val |-> [ds |-> 2, indices |-> 1..Len(val_dataset.samples)]])
    ELSE LET dataset == ImageFolderDataset(t.root, "train_transform")
             len == Len(dataset.samples)
             train_size == (8 * len) \div 10
         IN  UNION {WithLoaders(
                       [result |-> "built",
                        classes |-> dataset.classes,
                        datasets |-> [<<dataset>> EXCEPT ![1].transform = "val_transform"],
                        train |-> [ds |-> 1, indices |-> I],
                        val |-> [ds |-> 1, indices |-> (1..len) \ I]]) :
                    I \in {J \in SUBSET (1..len) : Cardinality(J) = train_size}}

\* stream[i]: Subset.__getitem__ hands the index to its dataset, whose
\* __getitem__ (dataset.py:33-42) applies the transform the dataset has at
\* that moment
GetItem(stream, i) ==
    LET dataset == loaders.datasets[stream.ds]
    IN  [sample |-> dataset.samples[i], transform |-> dataset.transform]

\* a call of prepare_loaders on some directory tree
InitLoaders ==
    /\ TRAINER = [instance |-> None, thread |-> None]
    /\ created = 0
    /\ cfg = [r \in RunIds |-> [epochs |-> 0, data |-> MissingDir]]
    /\ state = [r \in RunIds |-> InitState(MissingDir)]
    /\ stopFlag = [r \in RunIds |-> FALSE]
    /\ mode = [r \in RunIds |-> "train"]
    /\ th = [r \in RunIds |-> [pc |-> "unstarted", epoch |-> 0, i |-> 0]]
    /\ store = [pth |-> [e \in EpochKeys |-> None], json |-> [e \in EpochKeys |-> None]]
    /\ log = [r \in RunIds |-> [pth |-> <<>>, json |-> <<>>]]
    /\ stopAt = [r \in RunIds |-> None]
    /\ checked = 0
    /\ starter = [r \in RunIds |-> "none"]
    /\ clock = 0
    /\ exports = {}
    /\ tree \in Trees
    /\ loaders = NotBuilt

NextLoaders ==
    /\ loaders = NotBuilt
    /\ loaders' \in PrepareLoaders(tree)
    /\ UNCHANGED <<TRAINER, created, cfg, state, stopFlag, mode, th, store, log,
                   stopAt, checked, starter, clock, exports, tree>>

SpecLoaders == InitLoaders /\ [][NextLoaders]_vars

\* ------------------------------------------------------------------------
\* Claims
\* ------------------------------------------------------------------------

Range(f) == {f[j] : j \in 1..Len(f)}
UpTo(n) == [j \in 1..n |-> j]

\* C1: at every moment at most one background training procedure is alive.
C1_AtMostOneAlive == Cardinality({r \in RunIds : IsAlive(r)}) <= 1

\* C2: a start request that finds the recorded thread alive is answered busy
\* and leaves the run slot, every run's status snapshot and cancellation flag,
\* every thread and the checkpoint store as they were.
C2_BusyChangesNothing ==
    [][\A d \in DataDirs \cup {MissingDir} :
          (ThreadBusy /\ StartCheck(d)) =>
              /\ StartReply(d) = "busy"
              /\ UNCHANGED <<TRAINER, created, cfg, state, stopFlag, mode, th, store, checked>>]_vars

\* a request can arrive while the recorded thread is inside an epoch
C2_Witness ==
    /\ ThreadBusy
    /\ InFlight < MaxReq
    /\ th[TRAINER.thread].pc \in BodyPcs
    /\ state[TRAINER.thread].last_loss # Unset

\* C3: if stop() arrives while epoch E is in progress, then once train() has
\* returned the checkpoint of epoch E is written, the status is stopped and
\* no checkpoint of epoch E+1 was written (E = N included).
C3_StopDuringEpoch ==
    \A r \in RunIds :
        (th[r].pc = "exited" /\ stopAt[r] # None) =>
            /\ state[r].status = "stopped"
            /\ stopAt[r] \in Range(log[r].pth) /\ stopAt[r] \in Range(log[r].json)
            /\ stopAt[r] + 1 \notin Range(log[r].pth) \cup Range(log[r].json)

\* C4: a run's status changes only along initialized -> training ->
\* finished and initialized -> training -> stopped; finished and stopped are
\* never left.
StatusMoves ==
    {<<"initialized", "training">>, <<"training", "finished">>, <<"training", "stopped">>}

C4_StatusMoves ==
    [][\A r \in RunIds :
          state'[r].status # state[r].status =>
              <<state[r].status, state'[r].status>> \in StatusMoves]_vars

\* one run has finished and another has stopped, the second one cancelled
C4_Witness ==
    \E r1, r2 \in RunIds :
        /\ state[r1].status = "finished"
        /\ state[r2].status = "stopped" /\ th[r2].pc = "exited"

\* C5: a training procedure that ends in an error leaves status = failed.
C5_AbortedIsFailed ==
    \A r \in RunIds : th[r].pc = "aborted" => state[r].status = "failed"

\* C6: the epoch field only ever steps from E to E+1; a run's checkpoint
\* files are those of epochs 1, 2, ... in this order, weights before metadata;
\* when epoch E+1 begins both files of epoch E are written; and when a file of
\* epoch E is written the snapshot shows epoch = E and epoch E's validation loss.
C6_EpochOrder ==
    [][\A r \in RunIds :
          /\ state'[r].epoch # state[r].epoch =>
                /\ state'[r].epoch = state[r].epoch + 1
                /\ state[r].epoch >= 1 =>
                      /\ state[r].epoch \in Range(log[r].pth)
                      /\ state[r].epoch \in Range(log[r].json)
          /\ log'[r] # log[r] =>
                /\ state[r].epoch = th[r].epoch
                /\ state[r].last_val_loss = ValLoss(th[r].epoch)
                /\ state'[r] = state[r]
                /\ log'[r].pth = UpTo(th[r].epoch)
                /\ log'[r].json \in {UpTo(th[r].epoch - 1), UpTo(th[r].epoch)}]_vars

\* a run has begun its last epoch after checkpointing the one before
C6_Witness ==
    \E r \in RunIds :
        /\ state[r].epoch = MaxEpochs
        /\ log[r].json = UpTo(MaxEpochs - 1)
        /\ th[r].pc = "batch"

\* C7: when the procedure of a run with N >= 1 epochs returns without having
\* been cancelled, status = finished, epoch = N, last_val_loss is set, and the
\* run wrote the weights and the metadata of each epoch 1..N exactly once and
\* nothing else.
C7_FinishedRun ==
    [][\A r \in RunIds :
          (th[r].pc # "exited" /\ th'[r].pc = "exited"
              /\ ~stopFlag[r] /\ cfg[r].epochs >= 1) =>
              /\ state'[r].status = "finished"
              /\ state'[r].epoch = cfg[r].epochs
              /\ state'[r].last_val_loss # Unset
              /\ log'[r].pth = UpTo(cfg[r].epochs)
              /\ log'[r].json = UpTo(cfg[r].epochs)]_vars

\* a run of MaxEpochs epochs has returned uncancelled
C7_Witness ==
    \E r \in RunIds :
        /\ th[r].pc = "exited" /\ ~stopFlag[r]
        /\ cfg[r].epochs = MaxEpochs
        /\ state[r].status = "finished"

\* C8: a checkpoint file, once written, is never written again (checked for
\* /train requests sent one at a time, where C1_AtMostOneAlive holds).
C8_AppendOnly ==
    [][\A k \in EpochKeys :
          /\ store.pth[k] # None => store'.pth[k] = store.pth[k]
          /\ store.json[k] # None => store'.json[k] = store.json[k]]_vars

\* C9 as stated: while a run is inside an epoch no field of its snapshot changes.
C9_SnapshotFrozen ==
    [][\A r \in RunIds : th[r].pc \in BodyPcs => state'[r] = state[r]]_vars

\* C9 amended: while a run is inside an epoch the fields status, epoch,
\* device and classes of its snapshot do not change (last_loss and
\* last_val_loss do), and status() changes nothing.
C9_SnapshotFrozenButLosses ==
    [][/\ \A r \in RunIds :
             th[r].pc \in BodyPcs =>
                 /\ state'[r].status = state[r].status
                 /\ state'[r].epoch = state[r].epoch
                 /\ state'[r].device = state[r].device
                 /\ state'[r].classes = state[r].classes
       /\ Status => UNCHANGED vars]_vars

\* the slot's run is inside an epoch and has recorded a mini-batch loss
C9_Witness ==
    /\ TRAINER.instance # None
    /\ th[TRAINER.instance].pc = "batch"
    /\ th[TRAINER.instance].i >= 1
    /\ StatusResult.last_loss = BatchLoss(th[TRAINER.instance].epoch, th[TRAINER.instance].i)

\* C10: every optimizer step of a training pass runs with the model in
\* training mode.
C10_TrainModeKept ==
    [][\A r \in RunIds :
          (th[r].pc = "batch" /\ th'[r].i = th[r].i + 1) => mode[r] = "train"]_vars

\* C11: the snapshot of an existing run changes only in a step of that run's
\* own live training thread, so status(), stop(), export(), predict() and a
\* start that is answered busy or fails in Trainer(...) change no snapshot;
\* and a step that sets a cancellation flag sets that of the slot's run and
\* changes nothing else (but the history of when it arrived).
C11_SingleWriter ==
    [][/\ \A r \in 1..created :
             state'[r] # state[r] => (IsAlive(r) /\ th'[r] # th[r])
       /\ stopFlag' # stopFlag =>
             /\ UNCHANGED <<TRAINER, created, cfg, state, mode, th, store, log, checked, starter>>
             /\ \A r \in RunIds : r # TRAINER.instance => stopFlag'[r] = stopFlag[r]]_vars

\* stop() has reached the slot's run in the middle of an epoch
C11_Witness ==
    /\ TRAINER.instance # None
    /\ stopFlag[TRAINER.instance]
    /\ th[TRAINER.instance].pc = "batch"
    /\ state[TRAINER.instance].status = "training"
    /\ state[TRAINER.instance].last_loss # Unset


\* C12 (as stated): in every state, also before any run was started, export
\* with a format that is neither 'torchscript' nor 'onnx' is answered
\* 'unknown format' and leaves EXPORT_DIR as it was.
C12_UnsupportedEverywhere ==
    [][/\ ExportResult("bogus") = "unknown format"
       /\ ExportArtifact("bogus") => exports' = exports]_vars

\* C12 (amended): export with such a format is answered 'unknown format' in
\* every state where the slot holds a run and 'no model' in every state where
\* it holds none, and in both cases leaves EXPORT_DIR as it was.
C12_UnsupportedWithRun ==
    [][/\ ExportResult("bogus") =
             IF TRAINER.instance = None THEN "no model" ELSE "unknown format"
       /\ ExportArtifact("bogus") => exports' = exports]_vars

\* a run is in the slot and has been exported, so EXPORT_DIR holds a file
C12_Witness ==
    /\ TRAINER.instance # None
    /\ ExportResult("bogus") = "unknown format"
    /\ exports # {}


\* C13: before any run was started, predict() of a decodable image without a
\* checkpoint path is answered differently from predict() of an image that
\* does not decode.
C13_NoModelDistinct ==
    created = 0 => PredictResult(TRUE, FALSE) # PredictResult(FALSE, FALSE)


\* C14: a /train request that ends in Trainer(...) raising (a handler past
\* the checks leaves without a run having been built) starts no thread and
\* leaves the slot, every run's snapshot, flag, model mode and thread, and the
\* checkpoint store as they were, so that status() and stop() answer after it
\* what they answered before it.
C14_FailedStartLeavesSlot ==
    [][(checked' < checked /\ created' = created) =>
          /\ UNCHANGED <<TRAINER, cfg, state, stopFlag, mode, th, store, log, starter>>
          /\ StatusResult' = StatusResult
          /\ StopResult' = StopResult]_vars

\* a request is past the checks, about to call Trainer(...), while the slot
\* holds an earlier run that has finished
C14_Witness ==
    /\ checked > 0
    /\ TRAINER.thread # None
    /\ TRAINER.instance = TRAINER.thread
    /\ state[TRAINER.instance].status = "finished"


\* C18: status() answers idle exactly when no run has been created, stop()
\* answers no job exactly when no run has been created, and the number of
\* runs created never goes down, so a service that has created a run never
\* answers idle or no job again, also after that run has finished or stopped.
C18_IdleOnlyBeforeFirstRun ==
    [][/\ created' >= created
       /\ (StatusResult = [status |-> "idle"]) <=> (created = 0)
       /\ (StatusResult' = [status |-> "idle"]) <=> (created' = 0)
       /\ (StopResult = "no job") <=> (created = 0)
       /\ (StopResult' = "no job") <=> (created' = 0)]_vars

\* the slot's run was stopped and its thread has exited
C18_Witness ==
    /\ TRAINER.instance # None
    /\ TRAINER.thread = TRAINER.instance
    /\ th[TRAINER.instance].pc = "exited"
    /\ state[TRAINER.instance].status = "stopped"
    /\ StatusResult.status = "stopped"
    /\ StopResult = "stopping"


\* what C19 says of run r in one state
C19_RunInv(r) ==
    LET s == state[r] IN
    /\ s.epoch \in 0..cfg[r].epochs
    /\ s.status = "initialized" =>
          s.epoch = 0 /\ s.last_loss = Unset /\ s.last_val_loss = Unset
    /\ s.last_val_loss # Unset =>
          \E e \in 1..s.epoch : s.last_val_loss = ValLoss(e) /\ s.last_loss # Unset
    /\ Len(log[r].pth) \in {s.epoch, s.epoch - 1} \cap Nat
    /\ Len(log[r].json) \in {s.epoch, s.epoch - 1} \cap Nat

\* C19: for every created run with N configured epochs, 0 <= epoch <= N and
\* epoch never decreases; status = initialized implies epoch = 0 and both
\* losses unset; last_val_loss, when set, is the validation loss of an epoch
\* in 1..epoch; and the run has written epoch or epoch - 1 checkpoint files
\* of each kind, none while epoch = 0.
C19_EpochBounds ==
    [][/\ \A r \in 1..created : C19_RunInv(r) /\ state'[r].epoch >= state[r].epoch
       /\ \A r \in 1..created' : C19_RunInv(r)']_vars

\* a run has written the weights of its last epoch and not yet the metadata
C19_Witness ==
    \E r \in 1..created :
        /\ th[r].pc = "save_json"
        /\ state[r].epoch = MaxEpochs
        /\ state[r].last_val_loss = ValLoss(MaxEpochs)
        /\ Len(log[r].pth) = MaxEpochs
        /\ Len(log[r].json) = MaxEpochs - 1

\* C17: an artifact file, once written by an export, stays as that export
\* wrote it: no later export writes the same path.
C17_ArtifactsKept ==
    [][\A e \in exports : e \in exports']_vars

\* C15: in both layouts every example of the training stream is retrieved
\* through the training preprocessing and every example of the validation
\* stream through the validation preprocessing.
C15_OwnPreprocessing ==
    loaders.result = "built" =>
        /\ \A i \in loaders.train.indices :
              GetItem(loaders.train, i).transform = "train_transform"
        /\ \A i \in loaders.val.indices :
              GetItem(loaders.val, i).transform = "val_transform"

\* the class directories of the data set a tree holds, and those of its
\* validation part
TrainDir == IF tree.layout = "split" THEN tree.train ELSE tree.root
ValDir == IF tree.layout = "split" THEN tree.val ELSE tree.root

\* C16: for a tree whose K >= 2 class directories all hold images (in the
\* pre-split layout: K directories under train/, and under val/ directories of
\* the same names only), the returned class list has K distinct entries in
\* sorted order, and every example of either stream has a label in 0..K-1
\* that is the index of its class directory in the returned list.
C16_LabelsIndexClasses ==
    LET K == Cardinality(DOMAIN TrainDir)
        classes == loaders.classes
        Labelled(stream) ==
            \A i \in stream.indices :
                LET x == GetItem(stream, i).sample IN
                /\ x.label \in 0..(K - 1)
                /\ x.label + 1 \in 1..Len(classes)
                /\ classes[x.label + 1] = x.class_dir
    IN  (/\ loaders.result = "built"
         /\ K >= 2
         /\ \A c \in DOMAIN TrainDir : TrainDir[c] > 0
         /\ \A c \in DOMAIN ValDir : ValDir[c] > 0
         /\ DOMAIN ValDir \subseteq DOMAIN TrainDir)
        => /\ Len(classes) = K
           /\ classes = SelectSeq(ClassNames, LAMBDA c : c \in DOMAIN TrainDir)
           /\ Labelled(loaders.train)
           /\ Labelled(loaders.val)

====
